---- MODULE Spec2Model ----
(***************************************************************************)
(* Model of the kita scraper (src/src/kita_scraper): the filename deriver  *)
(* create_filename, the fetch-and-tag pipeline download_media_files with   *)
(* download_file and add_date_to_exif, and the session orchestrator        *)
(* KitaScraper.run with scrape_journal_entries and _process_journal_entry. *)
(*                                                                         *)
(* Text is modelled as a sequence of one-character strings, so that        *)
(* splitting, stripping, truncation and concatenation are computed.        *)
(***************************************************************************)
EXTENDS Integers, Sequences, FiniteSets, TLC

VARIABLES
    cf_args,      \* create_filename called directly: [day, title, url] of the calls
    cf_results,   \* counter -> [sanitized_base, result] of create_filename(day, title, counter, url)
    dm_pc,        \* position inside download_media_files
    dm_args,      \* arguments of the current download_media_files call
    dm_i,         \* enumerate index i of the loop (0 before the first iteration)
    dm_name,      \* filename of the current iteration
    successful,   \* local tally of download_media_files
    failed,       \* local tally of download_media_files
    io_log,       \* I/O performed by the current download_media_files call, in order
    files,        \* output directory: filename -> resource whose bytes it holds
    dirWritable,  \* whether files can be opened for writing in output_dir
    run_pc,       \* position inside KitaScraper.run / scrape_journal_entries / _process_journal_entry
    driver,       \* self.driver: "none", "up" or "quit"
    stats,        \* self.stats
    days,         \* work week days still to process
    day,          \* day being processed
    entries,      \* journal entries of the day still to process
    entry,        \* journal entry being processed
    entry_title,  \* local entry_title of _process_journal_entry
    entry_names,  \* filenames derived so far for the download tasks of the entry being processed
    quits,        \* number of driver.quit() calls
    summaries,    \* number of _print_summary() calls
    login_result, \* what self.login() returned: "none" (not called), "ok", "failed"
    nav_log,      \* the navigate_to_day calls of the run, in order: [day, ok]
    caught,       \* run's except Exception clause was executed
    scrape_result,  \* find_elements of the current day: "none" (not called), "found", "error"
    entry_error,    \* the except clause of _process_journal_entry ran for the current entry
    close_attempts, \* attempts to close the modal of the current entry
    stats_mark,     \* self.stats when the current day's scrape, then the current entry, began
    env,          \* the environment mapping read by ScraperConfig.from_env
    main_pc,      \* position inside cli.main
    exit_code,    \* value returned by cli.main (-1 before it returns)
    config,       \* the ScraperConfig returned by from_env (NoConfig when there is none)
    config_error, \* message of the ValueError raised by from_env (empty when none was raised)
    ex_pc,        \* add_date_to_exif called directly: "idle", "call" or "done"
    ex_path,      \* image_path of the direct add_date_to_exif call
    ex_img,       \* what the file at image_path holds, as far as add_date_to_exif can tell
    ex_result,    \* value returned by the direct add_date_to_exif call
    ww_pc,        \* get_work_week_days called directly: "idle", "call" or "done"
    ww_cfg,       \* config.day_from and config.day_to of the direct call
    ww_result     \* list returned by the direct get_work_week_days call

cfVars  == <<cf_args, cf_results>>
dmVars  == <<dm_pc, dm_args, dm_i, dm_name, successful, failed, io_log>>
fsVars  == <<files, dirWritable>>
sessVars == <<login_result, nav_log>>
obsVars == <<scrape_result, entry_error, close_attempts, stats_mark>>
runVars == <<run_pc, driver, stats, days, day, entries, entry, entry_title, quits, summaries, sessVars, caught, obsVars>>
mainVars == <<env, main_pc, exit_code, config, config_error>>
exVars  == <<ex_pc, ex_path, ex_img, ex_result>>
wwVars  == <<ww_pc, ww_cfg, ww_result>>
\* everything outside download_media_files, the output directory and the run
callVars == <<cfVars, mainVars, exVars, wwVars>>
vars    == <<callVars, dmVars, fsVars, runVars, entry_names>>

----------------------------------------------------------------------------
(* Bounds of the model *)

MaxCounter == 11      \* counters 1..MaxCounter in direct create_filename calls
MaxCalls == 2         \* direct create_filename calls per fixed (day, title, url)
MaxUrls == 2          \* length of the URL list of a direct download_media_files call
MaxDays == 2          \* work week days of a run
MaxEntries == 2       \* journal entries found in one day view
LongTitleLen == 250   \* length of the over-long title
WindowLen == 14      \* number of days from which day_from and day_to are drawn

----------------------------------------------------------------------------
(* Text helpers *)

\* None: the value Selenium's get_attribute returns for an absent attribute
None == <<"None">>

Digits == <<"0", "1", "2", "3", "4", "5", "6", "7", "8", "9">>

RECURSIVE IntToStr(_)
\* str(n) for n >= 0, decimal
IntToStr(n) == IF n < 10 THEN <<Digits[n + 1]>>
               ELSE IntToStr(n \div 10) \o <<Digits[(n % 10) + 1]>>

\* zero-padded decimal of width w (%Y, %m, %d of strftime)
ZeroPad(n, w) == LET s == IntToStr(n)
                 IN  IF Len(s) >= w THEN s ELSE [i \in 1..(w - Len(s)) |-> "0"] \o s

\* day.strftime('%Y-%m-%d')
strftime(d) == ZeroPad(d.y, 4) \o <<"-">> \o ZeroPad(d.m, 2) \o <<"-">> \o ZeroPad(d.d, 2)

Contains(s, c) == \E i \in 1..Len(s) : s[i] = c

\* index of the last occurrence of c in s, 0 when there is none
LastIndexOf(s, c) == LET I == {i \in 1..Len(s) : s[i] = c}
                     IN  IF I = {} THEN 0 ELSE CHOOSE i \in I : \A j \in I : j <= i

\* index of the first occurrence of c in s, 0 when there is none
FirstIndexOf(s, c) == LET I == {i \in 1..Len(s) : s[i] = c}
                      IN  IF I = {} THEN 0 ELSE CHOOSE i \in I : \A j \in I : i <= j

\* s.rsplit(c, 1)[-1]
RSplitLast(s, c) == SubSeq(s, LastIndexOf(s, c) + 1, Len(s))

\* s.split(c, 1)[-1]
SplitFirstRest(s, c) == SubSeq(s, FirstIndexOf(s, c) + 1, Len(s))

\* s.replace(c, "") for every c in C
RemoveChars(s, C) == SelectSeq(s, LAMBDA x : x \notin C)

RECURSIVE RStrip(_, _)
\* s.rstrip(C)
RStrip(s, C) == IF s = <<>> \/ s[Len(s)] \notin C THEN s
                ELSE RStrip(SubSeq(s, 1, Len(s) - 1), C)

Repeat(c, n) == [i \in 1..n |-> c]

\* s[:n]
Take(s, n) == SubSeq(s, 1, IF n < Len(s) THEN n ELSE Len(s))

----------------------------------------------------------------------------
(* pathvalidate.sanitize_filename as called by create_filename: default    *)
(* platform (universal), replacement_text "", max_len 255.                 *)

\* default max_len of sanitize_filename
MaxFilenameLen == 255

\* characters the universal platform removes from a file name
InvalidFilenameChars == {"\\", "/", ":", "*", "?", "\"", "<", ">", "|"}

\* sanitize_filename(name): invalid characters removed, the name truncated to
\* max_len, then trailing spaces and periods stripped. A reserved name (CON,
\* NUL, ...) would get a "_" appended; the names built by create_filename
\* start with the digits of the year and are never reserved.
sanitize_filename(name) ==
    RStrip(Take(RemoveChars(name, InvalidFilenameChars), MaxFilenameLen), {" ", "."})

----------------------------------------------------------------------------
(* create_filename *)

\* characters create_filename removes by hand before sanitizing
ManualChars == {":", "/", "*", "&"}

original_file_name(url) == RSplitLast(url, "/")

extension_first_dot(ofn) == IF Contains(ofn, ".") THEN SplitFirstRest(ofn, ".") ELSE <<>>

extension(ofn) == IF Contains(ofn, ".") THEN RSplitLast(ofn, ".") ELSE <<>>

base_name_title_only(d, title, counter) == title

\* f"{day.strftime('%Y-%m-%d')}_{title}-{counter}"
base_name(d, title, counter) ==
    strftime(d) \o <<"_">> \o title \o <<"-">> \o IntToStr(counter)

sanitized_base(d, title, counter) ==
    sanitize_filename(RemoveChars(base_name(d, title, counter), ManualChars))

\* url.rsplit raises AttributeError when url is None
create_filename_raises(url) == url = None

create_filename(d, title, counter, url) ==
    LET ext == extension(original_file_name(url))
        sb  == sanitized_base(d, title, counter)
    IN  IF ext # <<>> THEN sb \o <<".">> \o ext ELSE sb

----------------------------------------------------------------------------
(* Inputs *)

Day1 == [y |-> 2023, m |-> 1, d |-> 2]
Day2 == [y |-> 2024, m |-> 12, d |-> 31]
Days == {Day1, Day2}

T_empty   == <<>>
T_plain   == <<"T", "t">>
T_special == <<"a", ":", " ", "/", "*", "&", "b">>
T_default == <<"n", "o", "_", "e", "n", "t", "r", "y", "_", "t", "i", "t", "l", "e">>
T_dots    == <<".", " ", ".">>
\* a title longer than any file name sanitize_filename lets through
T_long    == Repeat("a", LongTitleLen)
\* a title of which sanitizing leaves nothing
T_removed == <<":", "/", "*", "&", "?">>
Titles == {T_empty, T_plain, T_special, T_default, T_dots, T_long, T_removed}

U_a_jpg   == <<"h", "/", "a", ".", "j", "p", "g">>
U_b_jpg   == <<"h", "/", "b", ".", "j", "p", "g">>
U_noext   == <<"h", "/", "c">>
U_dotend  == <<"h", "/", "d", ".">>
U_hostdot == <<"h", ".", "x", "/", "e">>
U_twodots == <<"h", "/", "a", ".", "t", "a", "r", ".", "g", "z">>
\* a URL with a query string after the file name
U_query   == <<"h", "/", "a", ".", "j", "p", "g", "?", "w", "&", "h">>
UrlStrings == {U_a_jpg, U_b_jpg, U_noext, U_dotend, U_hostdot, U_twodots, U_query}

----------------------------------------------------------------------------
(* States in which a part of the program is not running *)

cfIdle == /\ cf_args = [d |-> Day1, title |-> T_empty, url |-> U_noext]
          /\ cf_results = <<>>

----------------------------------------------------------------------------
(* Direct calls of create_filename with a fixed day, title and URL *)

CreateFilenameCall(counter) ==
    /\ counter \notin DOMAIN cf_results
    /\ Cardinality(DOMAIN cf_results) < MaxCalls
    /\ cf_results' = (counter :> [sanitized_base |-> sanitized_base(cf_args.d, cf_args.title, counter),
                                  result |-> create_filename(cf_args.d, cf_args.title, counter, cf_args.url)])
                     @@ cf_results
    /\ UNCHANGED <<cf_args, mainVars, exVars, wwVars, dmVars, fsVars, runVars, entry_names>>

----------------------------------------------------------------------------
(* download_media_files, with download_file and add_date_to_exif.          *)
(* dm_pc: "idle" (not called), "call", "loop" (head of the for loop),      *)
(* "download", "tag", "done" (returned), "raised" (an exception escaped).  *)

UpperCase == <<"A", "B", "C", "D", "E", "F", "G", "H", "I", "J", "K", "L", "M",
               "N", "O", "P", "Q", "R", "S", "T", "U", "V", "W", "X", "Y", "Z">>
LowerCase == <<"a", "b", "c", "d", "e", "f", "g", "h", "i", "j", "k", "l", "m",
               "n", "o", "p", "q", "r", "s", "t", "u", "v", "w", "x", "y", "z">>

\* the lower-case letter of each upper-case letter
ToLower == [u \in {UpperCase[i] : i \in 1..26} |->
               LowerCase[CHOOSE i \in 1..26 : UpperCase[i] = u]]

\* s.lower()
Lower(s) == [k \in 1..Len(s) |-> IF s[k] \in DOMAIN ToLower THEN ToLower[s[k]] ELSE s[k]]

EndsWith(s, suf) == /\ Len(suf) <= Len(s)
                    /\ SubSeq(s, Len(s) - Len(suf) + 1, Len(s)) = suf

ImageSuffixes == {<<".", "j", "p", "g">>, <<".", "j", "p", "e", "g">>, <<".", "p", "n", "g">>,
                  <<".", "t", "i", "f", "f">>, <<".", "t", "i", "f">>}

\* the extension test of add_date_to_exif
IsImagePath(path) == \E suf \in ImageSuffixes : EndsWith(Lower(path), suf)

\* entries of io_log: the fetch of URL i ("ok" or "raised"), the write of its
\* file, the add_date_to_exif call on it (with its outcome)
LogFetch(i, res) == [op |-> "fetch", i |-> i, res |-> res]
LogWrite(i)      == [op |-> "write", i |-> i, res |-> "ok"]
LogTag(i, res)   == [op |-> "tag", i |-> i, res |-> res]

dmIdle == /\ dm_pc = "idle"
          /\ dm_args = [d |-> Day1, title |-> T_empty, urls |-> <<>>]
          /\ dm_i = 0
          /\ dm_name = <<>>
          /\ successful = 0
          /\ failed = 0
          /\ io_log = <<>>

TallyInit_one_failed == [s |-> 0, f |-> 1]

\* successful = 0; failed = 0
TallyInit == [s |-> 0, f |-> 0]

DMF_Enter ==
    /\ dm_pc = "call"
    /\ successful' = TallyInit.s
    /\ failed' = TallyInit.f
    /\ dm_i' = 0
    /\ io_log' = <<>>
    /\ dm_pc' = "loop"
    /\ UNCHANGED <<dm_args, dm_name, callVars, fsVars, runVars, entry_names>>

ordinal_from_zero(position) == position - 1

\* enumerate(urls, 1): the counter of the URL at a 1-based position
ordinal(position) == position

\* for i, url in enumerate(urls, 1): filename = create_filename(day, title, i, url)
\* and, when the list is exhausted, return successful, failed
DMF_Next ==
    /\ dm_pc = "loop"
    /\ IF dm_i < Len(dm_args.urls)
       THEN LET i   == dm_i + 1
                url == dm_args.urls[i]
            IN  IF create_filename_raises(url)
                THEN /\ dm_pc' = "raised"
                     /\ UNCHANGED <<dm_i, dm_name, entry_names>>
                ELSE /\ dm_i' = i
                     /\ dm_name' = create_filename(dm_args.d, dm_args.title, ordinal(i), url)
                     /\ entry_names' = Append(entry_names, dm_name')
                     /\ dm_pc' = "download"
       ELSE /\ dm_pc' = "done"
            /\ UNCHANGED <<dm_i, dm_name, entry_names>>
    /\ UNCHANGED <<dm_args, successful, failed, io_log, callVars, fsVars, runVars>>

TallyFailure_not_counted(t) == t

\* the tally after download_file returned False
TallyFailure(t) == [s |-> t.s, f |-> t.f + 1]

pc_after_failure_break == "done"

\* after failed += 1 the loop goes on with the next URL
pc_after_failure == "loop"

pc_after_success_no_tag == "loop"

\* after successful += 1 add_date_to_exif is called
pc_after_success == "tag"

\* the tally after download_file returned True
TallySuccess(t) == [s |-> t.s + 1, f |-> t.f]

FilesAfterFetchError_truncates(fs, name) ==
    IF name \in DOMAIN fs THEN [fs EXCEPT ![name].content = "partial"]
    ELSE (name :> [src |-> <<>>, content |-> "partial"]) @@ fs

\* the files after urlopen or read raised: open(output_path, "wb") comes after
\* the fetch and is not reached
FilesAfterFetchError(fs, name) == fs

\* if download_file(url, output_path): successful += 1 ... else: failed += 1
\* download_file: urlopen + read, then open(output_path, "wb") + write; any
\* exception is caught and makes it return False.
DMF_Download ==
    /\ dm_pc = "download"
    /\ LET url == dm_args.urls[dm_i]
           t   == [s |-> successful, f |-> failed]
       IN  \/ \* urlopen or read raises
              /\ io_log' = Append(io_log, LogFetch(dm_i, "raised"))
              /\ successful' = TallyFailure(t).s
              /\ failed' = TallyFailure(t).f
              /\ dm_pc' = pc_after_failure
              /\ files' = FilesAfterFetchError(files, dm_name)
           \/ \* fetched, but open(output_path, "wb") raises
              /\ ~dirWritable
              /\ io_log' = Append(io_log, LogFetch(dm_i, "ok"))
              /\ successful' = TallyFailure(t).s
              /\ failed' = TallyFailure(t).f
              /\ dm_pc' = pc_after_failure
              /\ UNCHANGED files
           \/ \* fetched and written
              /\ dirWritable
              /\ io_log' = io_log \o <<LogFetch(dm_i, "ok"), LogWrite(dm_i)>>
              /\ files' = (dm_name :> [src |-> url, content |-> "downloaded"]) @@ files
              /\ successful' = TallySuccess(t).s
              /\ failed' = TallySuccess(t).f
              /\ dm_pc' = pc_after_success
    /\ UNCHANGED <<dm_args, dm_i, dm_name, dirWritable, callVars, runVars, entry_names>>

TallyAfterTag_counts_untagged(t, outcome) ==
    IF outcome = "tagged" THEN t ELSE [s |-> t.s - 1, f |-> t.f + 1]

\* the tally after add_date_to_exif, whatever it returned
TallyAfterTag(t, outcome) == t

\* what add_date_to_exif finds at the path: whether Image.open succeeds,
\* whether "exif" is in image_file.info, whether piexif.load and piexif.dump
\* succeed, whether image_file.save succeeds
ImageKinds == [opens : BOOLEAN, has_exif : BOOLEAN, exif_loads : BOOLEAN, save_ok : BOOLEAN]

add_date_to_exif_no_exif_check(path, img) ==
    IF ~IsImagePath(path) THEN "skipped"
    ELSE IF ~img.opens THEN "error"
    ELSE IF ~img.exif_loads THEN "error"
    ELSE IF ~img.save_ok THEN "save_error"
    ELSE "tagged"

\* the outcome of add_date_to_exif(path, day): "tagged" is the return of True;
\* "skipped" (not an image path), "no_exif", "error" (an exception before
\* save) and "save_error" (an exception in save) are the returns of False
add_date_to_exif(path, img) ==
    IF ~IsImagePath(path) THEN "skipped"
    ELSE IF ~img.opens THEN "error"
    ELSE IF ~img.has_exif THEN "no_exif"
    ELSE IF ~img.exif_loads THEN "error"
    ELSE IF ~img.save_ok THEN "save_error"
    ELSE "tagged"

\* the contents of the file after the call: save rewrites the file in place,
\* a save that raises may leave it as it was or partly written
ContentsAfter(outcome, before) ==
    CASE outcome = "tagged"     -> {"tagged"}
      [] outcome = "save_error" -> {before, "partial"}
      [] OTHER                  -> {before}

\* what download_media_files sees of the outcome
TagResult(outcome) == IF outcome = "save_error" THEN "error" ELSE outcome

\* add_date_to_exif(output_path, day); its result is ignored
DMF_Tag ==
    /\ dm_pc = "tag"
    /\ \E outcome \in {add_date_to_exif(dm_name, img) : img \in ImageKinds} :
         LET t == TallyAfterTag([s |-> successful, f |-> failed], TagResult(outcome))
         IN  /\ \E c \in ContentsAfter(outcome, files[dm_name].content) :
                   files' = [files EXCEPT ![dm_name].content = c]
             /\ io_log' = Append(io_log, LogTag(dm_i, TagResult(outcome)))
             /\ successful' = t.s
             /\ failed' = t.f
    /\ dm_pc' = "loop"
    /\ UNCHANGED <<dm_args, dm_i, dm_name, dirWritable, callVars, runVars, entry_names>>

\* paths of the direct add_date_to_exif calls
P_jpg      == <<"a", ".", "j", "p", "g">>
P_JPG      == <<"a", ".", "J", "P", "G">>
P_Jpeg     == <<"a", ".", "J", "p", "e", "g">>
P_png      == <<"a", ".", "p", "n", "g">>
P_tiff     == <<"a", ".", "t", "i", "f", "f">>
P_tif      == <<"a", ".", "T", "I", "F">>
P_pdf      == <<"a", ".", "p", "d", "f">>
P_nodot    == <<"a", "j", "p", "g">>
P_jpg_txt  == <<"a", ".", "j", "p", "g", ".", "t", "x", "t">>
P_jpgx     == <<"a", ".", "j", "p", "g", "x">>
ExifPaths == {P_jpg, P_JPG, P_Jpeg, P_png, P_tiff, P_tif, P_pdf, P_nodot, P_jpg_txt, P_jpgx}

exIdle == /\ ex_pc = "idle"
          /\ ex_path = P_jpg
          /\ ex_img = [opens |-> TRUE, has_exif |-> TRUE, exif_loads |-> TRUE, save_ok |-> TRUE]
          /\ ex_result = FALSE

ex_pc_after_save_error_escapes(outcome) ==
    IF outcome = "save_error" THEN "raised" ELSE "returned"

\* how the call ends: the whole body is inside try ... except Exception, which
\* returns False, so that every outcome is a return
ex_pc_after(outcome) == "returned"

\* a direct call add_date_to_exif(ex_path, day) on an existing file
AddDateToExif_Call ==
    /\ ex_pc = "call"
    /\ LET outcome == add_date_to_exif(ex_path, ex_img)
       IN  /\ ex_result' = (outcome = "tagged")
           /\ \E c \in ContentsAfter(outcome, files[ex_path].content) :
                 files' = [files EXCEPT ![ex_path].content = c]
           /\ ex_pc' = ex_pc_after(outcome)
    /\ UNCHANGED <<ex_path, ex_img, dirWritable, cfVars, mainVars, wwVars, dmVars, runVars, entry_names>>

----------------------------------------------------------------------------
(* KitaScraper.run, scrape_journal_entries and _process_journal_entry.     *)
(* run_pc: "idle" (no run), then the positions named in the actions,       *)
(* "done" (run returned self.stats), "raised" (an exception left run).     *)

\* the title of the entry has more than 25 characters
T_27 == <<"E", "n", "t", "r", "y", " ", "t", "i", "t", "l", "e", " ", "o", "f", " ",
          "2", "7", " ", "c", "h", "a", "r", "s", " ", "x", "y", "z">>

\* a title that differs from T_27 in its 26th character only
T_27b == [T_27 EXCEPT ![26] = "Y"]

\* what the page shows for a journal entry: the text of the title element
\* (None when there is no such element), the src of the gallery images and the
\* href of the attachment links (None when the attribute is absent)
E_mixed  == [title |-> T_plain, images |-> <<U_a_jpg>>, attachments |-> <<U_b_jpg>>]
E_nosrc  == [title |-> None, images |-> <<U_noext, None>>, attachments |-> <<>>]
E_attach == [title |-> T_27, images |-> <<>>, attachments |-> <<U_twodots>>]
PageEntries == {E_mixed, E_nosrc, E_attach}

TitleLimit == 25

\* int(text) for a text of decimal digits
RECURSIVE StrToInt(_)
StrToInt(s) ==
    IF s = <<>> THEN 0
    ELSE 10 * StrToInt(SubSeq(s, 1, Len(s) - 1))
         + (CHOOSE v \in 0..9 : Digits[v + 1] = s[Len(s)])

\* parser.parse(text) for a text in the form YYYY-MM-DD: midnight of that day
ParseDate(text) == [y |-> StrToInt(SubSeq(text, 1, 4)),
                    m |-> StrToInt(SubSeq(text, 6, 7)),
                    d |-> StrToInt(SubSeq(text, 9, 10))]

IsLeap(y) == (y % 4 = 0 /\ y % 100 # 0) \/ y % 400 = 0

DaysInMonth(y, m) ==
    IF m = 2 THEN (IF IsLeap(y) THEN 29 ELSE 28)
    ELSE IF m \in {4, 6, 9, 11} THEN 30 ELSE 31

RECURSIVE DaysBeforeMonth(_, _)
DaysBeforeMonth(y, m) == IF m = 1 THEN 0 ELSE DaysBeforeMonth(y, m - 1) + DaysInMonth(y, m - 1)

\* date.toordinal(): 1 for 0001-01-01
ToOrdinal(d) ==
    LET p == d.y - 1
    IN  p * 365 + (p \div 4) - (p \div 100) + (p \div 400) + DaysBeforeMonth(d.y, d.m) + d.d

\* date.weekday(): 0 for Monday .. 6 for Sunday
weekday(d) == (ToOrdinal(d) + 6) % 7

\* d + timedelta(days=1)
NextDate(d) ==
    IF d.d < DaysInMonth(d.y, d.m) THEN [d EXCEPT !.d = d.d + 1]
    ELSE IF d.m < 12 THEN [y |-> d.y, m |-> d.m + 1, d |-> 1]
    ELSE [y |-> d.y + 1, m |-> 1, d |-> 1]

DateLE(a, b) ==
    \/ a.y < b.y
    \/ a.y = b.y /\ a.m < b.m
    \/ a.y = b.y /\ a.m = b.m /\ a.d <= b.d

DateLT(a, b) == DateLE(a, b) /\ a # b

\* byweekday=(MO, TU, WE, TH, FR)
WorkWeekdays == {0, 1, 2, 3, 4}

until_exclusive(d, until) == DateLT(d, until)

\* rrule stops after the last occurrence not later than until
until_reached(d, until) == DateLE(d, until)

RECURSIVE rrule(_, _)
\* list(rrule(DAILY, dtstart=d, until=until, byweekday=(MO, TU, WE, TH, FR)))
rrule(d, until) ==
    IF ~until_reached(d, until) THEN <<>>
    ELSE (IF weekday(d) \in WorkWeekdays THEN <<d>> ELSE <<>>) \o rrule(NextDate(d), until)

\* get_work_week_days() of a scraper configured with cfg.day_from and cfg.day_to
get_work_week_days(cfg) == rrule(ParseDate(cfg.day_from), ParseDate(cfg.day_to))

\* the days of the configured ranges: 2023-01-26 .. 2023-01-31, then February 2023
WindowDay(k) == IF k <= 6 THEN [y |-> 2023, m |-> 1, d |-> 25 + k]
                ELSE [y |-> 2023, m |-> 2, d |-> k - 6]

wwIdle == /\ ww_pc = "idle"
          /\ ww_cfg = [day_from |-> strftime(Day1), day_to |-> strftime(Day1)]
          /\ ww_result = <<>>

\* a direct call scraper.get_work_week_days()
GetWorkWeekDays_Call ==
    /\ ww_pc = "call"
    /\ ww_result' = get_work_week_days(ww_cfg)
    /\ ww_pc' = "returned"
    /\ UNCHANGED <<ww_cfg, cfVars, mainVars, exVars, dmVars, fsVars, runVars, entry_names>>

\* the work week days of a range configured from 2023-01-02 (a Monday) to
\* n - 1 days later
DayList(n) == get_work_week_days([day_from |-> strftime(Day1),
                                  day_to |-> strftime([y |-> 2023, m |-> 1, d |-> 1 + n])])

SeqsUpTo(S, n) == UNION {[1..k -> S] : k \in 0..n}

StatsInit == [days_checked |-> 0, journal_entries |-> 0, gallery_images |-> 0,
              attachments |-> 0, download_success |-> 0, download_failed |-> 0]

runIdle == /\ run_pc = "idle"
           /\ driver = "none"
           /\ stats = StatsInit
           /\ days = <<>>
           /\ day = Day1
           /\ entries = <<>>
           /\ entry = E_attach
           /\ entry_title = <<>>
           /\ quits = 0
           /\ summaries = 0
           /\ login_result = "none"
           /\ nav_log = <<>>
           /\ caught = FALSE
    /\ scrape_result = "none"
    /\ entry_error = FALSE
    /\ close_attempts = 0
    /\ stats_mark = StatsInit
           /\ scrape_result = "none"
           /\ entry_error = FALSE
           /\ close_attempts = 0
           /\ stats_mark = StatsInit

\* self.config.validate_and_set_defaults(), outside the try of run
Run_Validate ==
    /\ run_pc = "start"
    /\ \/ run_pc' = "setup"
       \/ \* os.makedirs raises
          run_pc' = "raised"
    /\ UNCHANGED <<driver, stats, days, day, entries, entry, entry_title, entry_names,
                   quits, summaries, obsVars, sessVars, caught, callVars, dmVars, fsVars>>

\* self.setup_driver()
Run_SetupDriver ==
    /\ run_pc = "setup"
    /\ \/ /\ driver' = "up"
          /\ run_pc' = "login"
          /\ UNCHANGED caught
       \/ \* webdriver.Firefox raises: except Exception in run
          /\ driver' = driver
          /\ caught' = TRUE
          /\ run_pc' = "finally"
    /\ UNCHANGED <<stats, days, day, entries, entry, entry_title, entry_names,
                   quits, summaries, obsVars, sessVars, callVars, dmVars, fsVars>>

\* if not self.login(): return self.stats; days = self.get_work_week_days()
Run_Login ==
    /\ run_pc = "login"
    /\ \/ \E n \in 0..MaxDays :
            /\ login_result' = "ok"
            /\ days' = DayList(n)
            /\ run_pc' = "day_loop"
       \/ \* login returns False
          /\ login_result' = "failed"
          /\ run_pc' = "finally"
          /\ UNCHANGED days
    /\ UNCHANGED <<driver, stats, day, entries, entry, entry_title, entry_names,
                   quits, summaries, obsVars, nav_log, caught, callVars, dmVars, fsVars>>

CountDay_twice(st) == [st EXCEPT !.days_checked = @ + 2]

\* self.stats["days_checked"] += 1
CountDay(st) == [st EXCEPT !.days_checked = @ + 1]

\* for day in days: self.stats["days_checked"] += 1; after the loop return self.stats
Run_NextDay ==
    /\ run_pc = "day_loop"
    /\ IF days # <<>>
       THEN /\ day' = Head(days)
            /\ days' = Tail(days)
            /\ stats' = CountDay(stats)
            /\ stats_mark' = stats'
            /\ scrape_result' = "none"
            /\ entry_error' = FALSE
            /\ close_attempts' = 0
            /\ run_pc' = "navigate"
       ELSE /\ run_pc' = "finally"
            /\ UNCHANGED <<day, days, stats, obsVars>>
    /\ UNCHANGED <<driver, entries, entry, entry_title, entry_names,
                   quits, summaries, sessVars, caught, callVars, dmVars, fsVars>>

pc_after_navigate_abort(ok) == IF ok THEN "scrape" ELSE "finally"

\* where run goes after navigate_to_day returned: the scrape of the day, or
\* (continue) the next iteration of the day loop
pc_after_navigate(ok) == IF ok THEN "scrape" ELSE "day_loop"

\* if not self.navigate_to_day(day): continue
Run_Navigate ==
    /\ run_pc = "navigate"
    /\ \E ok \in BOOLEAN :
         /\ nav_log' = Append(nav_log, [day |-> day, ok |-> ok])
         /\ run_pc' = pc_after_navigate(ok)
    /\ UNCHANGED <<driver, stats, days, day, entries, entry, entry_title, entry_names,
                   quits, summaries, obsVars, login_result, caught, callVars, dmVars, fsVars>>

pc_after_find_error_goes_on == "pje_open"

\* except (NoSuchElementException, TimeoutException, WebDriverException) of
\* scrape_journal_entries: log and return to the day loop of run
pc_after_find_error == "day_loop"

\* scrape_journal_entries: entries = find_elements(...); journal_entries += len(entries)
Scrape_FindEntries ==
    /\ run_pc = "scrape"
    /\ \/ \E es \in SeqsUpTo(PageEntries, MaxEntries) :
            /\ entries' = es
            /\ stats' = [stats EXCEPT !.journal_entries = @ + Len(es)]
            /\ scrape_result' = "found"
            /\ run_pc' = "entry_loop"
       \/ \* find_elements raises a WebDriver error: logged, scrape returns
          /\ scrape_result' = "error"
          /\ run_pc' = pc_after_find_error
          /\ UNCHANGED <<entries, stats>>
    /\ UNCHANGED <<driver, days, day, entry, entry_title, entry_names,
                   quits, summaries, entry_error, close_attempts, stats_mark,
                   sessVars, caught, callVars, dmVars, fsVars>>

\* for entry in entries: self._process_journal_entry(entry, day); then time.sleep(1)
Scrape_NextEntry ==
    /\ run_pc = "entry_loop"
    /\ IF entries # <<>>
       THEN /\ entry' = Head(entries)
            /\ entries' = Tail(entries)
            /\ stats_mark' = stats
            /\ entry_error' = FALSE
            /\ close_attempts' = 0
            /\ run_pc' = "pje_open"
       ELSE /\ run_pc' = "day_loop"
            /\ UNCHANGED <<entry, entries, stats_mark, entry_error, close_attempts>>
    /\ UNCHANGED <<driver, stats, days, day, entry_title, entry_names,
                   quits, summaries, scrape_result, sessVars, caught, callVars, dmVars, fsVars>>

EntryTitle_untruncated(e) == IF e.title = None THEN T_default ELSE e.title

\* entry_title = "no_entry_title", or the text of the title element cut to 25
EntryTitle(e) == IF e.title = None THEN T_default ELSE Take(e.title, TitleLimit)

\* _process_journal_entry: open the modal, read the title and the gallery images
PJE_Open ==
    /\ run_pc = "pje_open"
    /\ \/ /\ entry_title' = EntryTitle(entry)
          /\ run_pc' = "pje_images"
       \/ \* click, wait or find_elements raises a WebDriver error
          /\ run_pc' = "pje_except"
          /\ UNCHANGED entry_title
    /\ UNCHANGED <<driver, stats, days, day, entries, entry, entry_names,
                   quits, summaries, obsVars, sessVars, caught, callVars, dmVars, fsVars>>

\* download_media_files(day, entry_title, urls, self.config.output_dir) is called
CallDownload(urls) ==
    /\ dm_pc' = "call"
    /\ dm_args' = [d |-> day, title |-> entry_title, urls |-> urls]
    /\ UNCHANGED <<dm_i, dm_name, successful, failed, io_log>>

\* if images_urls: success, failed = download_media_files(...)
PJE_Images ==
    /\ run_pc = "pje_images"
    /\ IF entry.images # <<>>
       THEN /\ CallDownload(entry.images)
            /\ run_pc' = "pje_images_wait"
       ELSE /\ run_pc' = "pje_attach"
            /\ UNCHANGED dmVars
    /\ UNCHANGED <<driver, stats, days, day, entries, entry, entry_title, entry_names,
                   quits, summaries, obsVars, sessVars, caught, callVars, fsVars>>

AddBatch_success_only(st, kind, n, success, fail) ==
    [st EXCEPT ![kind] = @ + n,
               !.download_success = @ + success]

\* the stats after a batch of n URLs of the given kind returned (success, failed)
AddBatch(st, kind, n, success, fail) ==
    [st EXCEPT ![kind] = @ + n,
               !.download_success = @ + success,
               !.download_failed = @ + fail]

\* download_media_files returned or raised (its frame is gone); an exception that is no WebDriver
\* error passes the except clauses of _process_journal_entry and
\* scrape_journal_entries and is caught by except Exception in run
DownloadReturns(kind, urls, next) ==
    /\ dm_pc \in {"done", "raised"}
    /\ IF dm_pc = "done"
       THEN /\ stats' = AddBatch(stats, kind, Len(urls), successful, failed)
            /\ run_pc' = next
            /\ UNCHANGED caught
       ELSE /\ run_pc' = "finally"
            /\ caught' = TRUE
            /\ UNCHANGED stats
    /\ dm_pc' = "idle"
    /\ dm_args' = [d |-> Day1, title |-> T_empty, urls |-> <<>>]
    /\ dm_i' = 0
    /\ dm_name' = <<>>
    /\ successful' = 0
    /\ failed' = 0
    /\ io_log' = <<>>

PJE_ImagesDone ==
    /\ run_pc = "pje_images_wait"
    /\ DownloadReturns("gallery_images", entry.images, "pje_attach")
    /\ UNCHANGED <<driver, days, day, entries, entry, entry_title, entry_names,
                   quits, summaries, obsVars, sessVars, callVars, fsVars>>

\* attachments = find_elements(...); if attachments_urls: download_media_files(...)
PJE_Attachments ==
    /\ run_pc = "pje_attach"
    /\ \/ IF entry.attachments # <<>>
          THEN /\ CallDownload(entry.attachments)
               /\ run_pc' = "pje_attach_wait"
          ELSE /\ run_pc' = "pje_close"
               /\ UNCHANGED dmVars
       \/ \* find_elements or get_attribute raises a WebDriver error
          /\ run_pc' = "pje_except"
          /\ UNCHANGED dmVars
    /\ UNCHANGED <<driver, stats, days, day, entries, entry, entry_title, entry_names,
                   quits, summaries, obsVars, sessVars, caught, callVars, fsVars>>

PJE_AttachmentsDone ==
    /\ run_pc = "pje_attach_wait"
    /\ DownloadReturns("attachments", entry.attachments, "pje_close")
    /\ UNCHANGED <<driver, days, day, entries, entry, entry_title, entry_names,
                   quits, summaries, obsVars, sessVars, callVars, fsVars>>

\* close the modal
PJE_Close ==
    /\ run_pc = "pje_close"
    /\ close_attempts' = close_attempts + 1
    /\ \/ /\ run_pc' = "entry_loop"
          /\ entry_title' = <<>>
          /\ entry_names' = <<>>
       \/ \* find_element or click raises a WebDriver error
          /\ run_pc' = "pje_except"
          /\ UNCHANGED <<entry_title, entry_names>>
    /\ UNCHANGED <<driver, stats, days, day, entries, entry,
                   quits, summaries, scrape_result, entry_error, stats_mark,
                   sessVars, caught, callVars, dmVars, fsVars>>

pc_after_entry_error_ends_day == "day_loop"

\* _process_journal_entry returns after its except clause: the loop of
\* scrape_journal_entries goes on with the next entry
pc_after_entry_error == "entry_loop"

\* except (NoSuchElementException, TimeoutException, WebDriverException): try to
\* close the modal, ignoring any error
PJE_Except ==
    /\ run_pc = "pje_except"
    /\ entry_error' = TRUE
    /\ close_attempts' = close_attempts + 1
    /\ run_pc' = pc_after_entry_error
    /\ entry_title' = <<>>
    /\ entry_names' = <<>>
    /\ UNCHANGED <<driver, stats, days, day, entries, entry,
                   quits, summaries, scrape_result, stats_mark,
                   sessVars, caught, callVars, dmVars, fsVars>>

should_quit_always(drv) == TRUE

\* if self.driver:
should_quit(drv) == drv # "none"

\* finally: if self.driver: self.driver.quit(); self._print_summary()
Run_Finally ==
    /\ run_pc = "finally"
    /\ \/ /\ should_quit(driver)
          /\ driver' = "quit"
          /\ quits' = quits + 1
          /\ summaries' = summaries + 1
          /\ run_pc' = "done"
       \/ \* driver.quit() raises: the summary is skipped and the exception leaves run
          /\ should_quit(driver)
          /\ quits' = quits + 1
          /\ run_pc' = "raised"
          /\ UNCHANGED <<driver, summaries>>
       \/ /\ ~should_quit(driver)
          /\ summaries' = summaries + 1
          /\ run_pc' = "done"
          /\ UNCHANGED <<driver, quits>>
    /\ UNCHANGED <<stats, days, day, entries, entry, entry_title, entry_names,
                   obsVars, sessVars, caught, callVars, dmVars, fsVars>>

----------------------------------------------------------------------------
(* ScraperConfig.from_env *)

RequiredKeys == <<"EMAIL", "PASSWORD", "BASE_URL", "GROUP_ID">>

\* the name of a key as text
KeyText(k) ==
    CASE k = "EMAIL"    -> <<"E", "M", "A", "I", "L">>
      [] k = "PASSWORD" -> <<"P", "A", "S", "S", "W", "O", "R", "D">>
      [] k = "BASE_URL" -> <<"B", "A", "S", "E", "_", "U", "R", "L">>
      [] k = "GROUP_ID" -> <<"G", "R", "O", "U", "P", "_", "I", "D">>

\* env.get(key): None for an absent key, else the string
EnvValues == {None, <<>>, <<"v">>}

Envs == [{RequiredKeys[k] : k \in 1..4} -> EnvValues]

IsFalsy_only_none(v) == v = None

\* not value
IsFalsy(v) == v = None \/ v = <<>>

\* if not email: missing.append("EMAIL") ... in the order of the checks
RECURSIVE MissingFrom(_, _)
MissingFrom(e, k) ==
    IF k > Len(RequiredKeys) THEN <<>>
    ELSE (IF IsFalsy(e[RequiredKeys[k]]) THEN <<RequiredKeys[k]>> ELSE <<>>)
         \o MissingFrom(e, k + 1)

missing(e) == MissingFrom(e, 1)

RECURSIVE Join(_, _)
\* sep.join(texts)
Join(sep, texts) ==
    IF texts = <<>> THEN <<>>
    ELSE IF Len(texts) = 1 THEN texts[1]
    ELSE texts[1] \o sep \o Join(sep, Tail(texts))

MissingPrefix == <<"M", "i", "s", "s", "i", "n", "g", " ", "r", "e", "q", "u", "i", "r", "e", "d", " ",
                   "e", "n", "v", "i", "r", "o", "n", "m", "e", "n", "t", " ",
                   "v", "a", "r", "i", "a", "b", "l", "e", "s", ":", " ">>

\* f"Missing required environment variables: {', '.join(missing)}"
ErrorMessage(m) == MissingPrefix \o Join(<<",", " ">>, [k \in 1..Len(m) |-> KeyText(m[k])])

NoConfig == [email |-> None, password |-> None, base_url |-> None, group_id |-> None]

\* cls(email=email, password=password, base_url=base_url, group_id=group_id, ...)
ConfigOf(e) == [email |-> e["EMAIL"], password |-> e["PASSWORD"],
                base_url |-> e["BASE_URL"], group_id |-> e["GROUP_ID"]]

\* from_env raises ValueError
from_env_raises_only_email(e) == IsFalsy(e["EMAIL"])

from_env_raises(e) == missing(e) # <<>>

mainIdle == /\ env = [k \in {RequiredKeys[i] : i \in 1..4} |-> <<"v">>]
            /\ main_pc = "idle"
            /\ exit_code = -1
            /\ config = NoConfig
            /\ config_error = <<>>

\* a direct call ScraperConfig.from_env(env)
FromEnv_Call ==
    /\ main_pc = "idle"
    /\ config = NoConfig
    /\ config_error = <<>>
    /\ IF from_env_raises(env)
       THEN /\ config_error' = ErrorMessage(missing(env))
            /\ UNCHANGED config
       ELSE /\ config' = ConfigOf(env)
            /\ UNCHANGED config_error
    /\ UNCHANGED <<env, main_pc, exit_code, cfVars, exVars, wwVars, dmVars, fsVars, runVars, entry_names>>

----------------------------------------------------------------------------
(* cli.main. main_pc: "idle" (not called), "start", "run" (inside          *)
(* scraper.run()), "done" (returned exit_code).                            *)

ExitCode_fails_without_downloads(st) ==
    IF st.download_failed > 0 \/ st.download_success = 0 THEN 1 ELSE 0

\* if stats["download_failed"] > 0: return 1; return 0
ExitCode(st) == IF st.download_failed > 0 THEN 1 ELSE 0

\* config = ScraperConfig.from_env(); scraper = KitaScraper(config); scraper.run()
\* is entered; a ValueError of from_env is caught and main returns 1
Main_LoadConfig ==
    /\ main_pc = "start"
    /\ IF from_env_raises(env)
       THEN /\ config_error' = ErrorMessage(missing(env))
            /\ exit_code' = 1
            /\ main_pc' = "done"
            /\ UNCHANGED <<config, run_pc>>
       ELSE /\ config' = ConfigOf(env)
            /\ main_pc' = "run"
            /\ run_pc' = "start"
            /\ UNCHANGED <<config_error, exit_code>>
    /\ UNCHANGED <<env, driver, stats, days, day, entries, entry, entry_title, quits, summaries, obsVars, sessVars, caught,
                   cfVars, exVars, wwVars, dmVars, fsVars, entry_names>>

\* run returned stats, or an exception left run and is caught by main
Main_Return ==
    /\ main_pc = "run"
    /\ run_pc \in {"done", "raised"}
    /\ exit_code' = IF run_pc = "raised" THEN 1 ELSE ExitCode(stats)
    /\ main_pc' = "done"
    /\ UNCHANGED <<env, config, config_error, cfVars, exVars, wwVars, dmVars, fsVars, runVars, entry_names>>

----------------------------------------------------------------------------
(* Specifications *)

\* URLs of the direct download_media_files calls: strings, and None as the
\* scraper passes for an element without src or href
DmUrls == {U_a_jpg, U_noext, None}

\* a run of the scraper: KitaScraper(config).run()
Init ==
    /\ env \in Envs
    /\ main_pc = "start"
    /\ exit_code = -1
    /\ config = NoConfig
    /\ config_error = <<>>
    /\ run_pc = "idle"
    /\ driver = "none"
    /\ stats = StatsInit
    /\ days = <<>>
    /\ day = Day1
    /\ entries = <<>>
    /\ entry = E_attach
    /\ entry_title = <<>>
    /\ quits = 0
    /\ summaries = 0
    /\ login_result = "none"
    /\ nav_log = <<>>
    /\ caught = FALSE
    /\ scrape_result = "none"
    /\ entry_error = FALSE
    /\ close_attempts = 0
    /\ stats_mark = StatsInit
    /\ entry_names = <<>>
    /\ files = <<>>
    /\ dirWritable \in BOOLEAN
    /\ dmIdle
    /\ cfIdle
    /\ exIdle
    /\ wwIdle

DownloadNext == DMF_Enter \/ DMF_Next \/ DMF_Download \/ DMF_Tag

Next ==
    \/ Main_LoadConfig \/ Main_Return
    \/ Run_Validate \/ Run_SetupDriver \/ Run_Login \/ Run_NextDay \/ Run_Navigate
    \/ Scrape_FindEntries \/ Scrape_NextEntry
    \/ PJE_Open \/ PJE_Images \/ PJE_ImagesDone \/ PJE_Attachments \/ PJE_AttachmentsDone
    \/ PJE_Close \/ PJE_Except
    \/ Run_Finally
    \/ DownloadNext

Spec == Init /\ [][Next]_vars

\* one call download_media_files(day, title, urls, output_dir)
InitDownloadMedia ==
    /\ dm_pc = "call"
    /\ dm_args \in [d : {Day1}, title : {T_special}, urls : SeqsUpTo(DmUrls, MaxUrls)]
    /\ dm_i = 0
    /\ dm_name = <<>>
    /\ successful = 0
    /\ failed = 0
    /\ io_log = <<>>
    /\ entry_names = <<>>
    /\ files = <<>>
    /\ dirWritable \in BOOLEAN
    /\ runIdle
    /\ cfIdle
    /\ mainIdle
    /\ exIdle
    /\ wwIdle

SpecDownloadMedia == InitDownloadMedia /\ [][DownloadNext]_vars

\* calls create_filename(day, title, counter, url) for a fixed day, title and URL
InitCreateFilename ==
    /\ cf_args \in [d : Days, title : Titles, url : UrlStrings]
    /\ cf_results = <<>>
    /\ entry_names = <<>>
    /\ files = <<>>
    /\ dirWritable = TRUE
    /\ dmIdle
    /\ runIdle
    /\ mainIdle
    /\ exIdle
    /\ wwIdle

NextCreateFilename == \E counter \in 1..MaxCounter : CreateFilenameCall(counter)

SpecCreateFilename == InitCreateFilename /\ [][NextCreateFilename]_vars

\* one call ScraperConfig.from_env() under an environment mapping
InitFromEnv ==
    /\ env \in Envs
    /\ main_pc = "idle"
    /\ exit_code = -1
    /\ config = NoConfig
    /\ config_error = <<>>
    /\ entry_names = <<>>
    /\ files = <<>>
    /\ dirWritable = TRUE
    /\ dmIdle
    /\ runIdle
    /\ cfIdle
    /\ exIdle
    /\ wwIdle

SpecFromEnv == InitFromEnv /\ [][FromEnv_Call]_vars

\* one call add_date_to_exif(path, day) on a file that exists at the path
InitAddDateToExif ==
    /\ ex_pc = "call"
    /\ ex_path \in ExifPaths
    /\ ex_img \in ImageKinds
    /\ ex_result = FALSE
    /\ files = (ex_path :> [src |-> U_a_jpg, content |-> "downloaded"])
    /\ dirWritable = TRUE
    /\ entry_names = <<>>
    /\ dmIdle
    /\ runIdle
    /\ cfIdle
    /\ mainIdle
    /\ wwIdle

SpecAddDateToExif == InitAddDateToExif /\ [][AddDateToExif_Call]_vars

\* one call get_work_week_days() of a scraper whose configured range lies in
\* the first WindowLen days from 2023-01-26
InitWorkWeekDays ==
    /\ ww_pc = "call"
    /\ ww_cfg \in [day_from : {strftime(WindowDay(k)) : k \in 1..WindowLen},
                   day_to : {strftime(WindowDay(k)) : k \in 1..WindowLen}]
    /\ ww_result = <<>>
    /\ entry_names = <<>>
    /\ files = <<>>
    /\ dirWritable = TRUE
    /\ dmIdle
    /\ runIdle
    /\ cfIdle
    /\ mainIdle
    /\ exIdle

SpecWorkWeekDays == InitWorkWeekDays /\ [][GetWorkWeekDays_Call]_vars

\* earlier contents of an output path: none, or a file of an earlier download
EarlierFiles(path) ==
    {<<>>} \cup {(path :> [src |-> U_a_jpg, content |-> c]) : c \in {"downloaded", "tagged"}}

\* calls download_file(url, output_path), one URL after the other, on one
\* output path
InitDownloadFile ==
    /\ dm_pc = "download"
    /\ dm_args \in [d : {Day1}, title : {T_empty},
                    urls : SeqsUpTo(UrlStrings, MaxCalls) \ {<<>>}]
    /\ dm_i = 1
    /\ dm_name \in {P_jpg, P_pdf}
    /\ successful = 0
    /\ failed = 0
    /\ io_log = <<>>
    /\ entry_names = <<>>
    /\ files \in EarlierFiles(dm_name)
    /\ dirWritable \in BOOLEAN
    /\ runIdle
    /\ cfIdle
    /\ mainIdle
    /\ exIdle
    /\ wwIdle

\* the next call of download_file, on the same output path
DownloadFile_NextCall ==
    /\ dm_pc \in {pc_after_failure, pc_after_success}
    /\ dm_i < Len(dm_args.urls)
    /\ dm_i' = dm_i + 1
    /\ dm_pc' = "download"
    /\ UNCHANGED <<dm_args, dm_name, successful, failed, io_log, callVars, fsVars,
                   runVars, entry_names>>

NextDownloadFile == DMF_Download \/ DownloadFile_NextCall

SpecDownloadFile == InitDownloadFile /\ [][NextDownloadFile]_vars

----------------------------------------------------------------------------
(* Properties of download_media_files *)

LogIndexes(op, i) == {k \in DOMAIN io_log : io_log[k].op = op /\ io_log[k].i = i}

\* positions of io_log at which a download failed: the fetch raised, or the
\* fetched bytes were not written
FailedDownloads == {k \in DOMAIN io_log :
                      /\ io_log[k].op = "fetch"
                      /\ \/ io_log[k].res = "raised"
                         \/ k = Len(io_log)
                         \/ io_log[k + 1].op # "write"}

Writes == {k \in DOMAIN io_log : io_log[k].op = "write"}

\* C1: in every call of download_media_files the running counts sum to the
\* number of loop iterations completed (to k after the k-th iteration), and
\* the returned pair satisfies successful + failed = len(urls), whatever the
\* URLs and whichever downloads succeed or fail.
C1_TallySumsToUrls ==
    /\ dm_pc = "loop" => successful + failed = dm_i
    /\ dm_pc = "tag" => successful + failed = dm_i
    /\ dm_pc = "download" => successful + failed = dm_i - 1
    /\ dm_pc = "done" => successful + failed = Len(dm_args.urls)

C1_Witness ==
    /\ dm_pc = "done"
    /\ Len(dm_args.urls) >= 2
    /\ successful >= 1
    /\ failed >= 1

\* C2: a failed fetch of the URL at position i adds exactly one to failed
\* (failed counts exactly the failed downloads) and does not end the batch:
\* no URL is fetched twice, and when the call is over every URL string at a
\* position j that the loop can reach (no None before or at j) has been
\* fetched exactly once, also when an earlier fetch failed.
C2_FailureDoesNotAbort ==
    /\ failed = Cardinality(FailedDownloads)
    /\ \A j \in 1..Len(dm_args.urls) : Cardinality(LogIndexes("fetch", j)) <= 1
    /\ dm_pc \in {"done", "raised"} =>
         \A j \in 1..Len(dm_args.urls) :
            (\A k \in 1..j : dm_args.urls[k] # None)
               => Cardinality(LogIndexes("fetch", j)) = 1

C2_Witness ==
    /\ dm_pc = "done"
    /\ \E k \in DOMAIN io_log :
          /\ io_log[k] = LogFetch(1, "raised")
          /\ Cardinality(LogIndexes("fetch", 2)) = 1
    /\ failed >= 1

\* C3: download_media_files never propagates an error to its caller the
\* scraper: no call ends with an exception escaping it.
C3_NeverPropagates == dm_pc # "raised"

\* C4: the outcome of EXIF tagging never changes the tally: successful counts
\* exactly the downloads that were written and failed exactly the downloads
\* that failed, whether add_date_to_exif tagged the file, returned False or
\* hit an internal error.
C4_TaggingLeavesTally ==
    /\ successful = Cardinality(Writes)
    /\ failed = Cardinality(FailedDownloads)

C4_Witness ==
    /\ dm_pc = "done"
    /\ \E k \in DOMAIN io_log : io_log[k].op = "tag" /\ io_log[k].res = "error"
    /\ \E k \in DOMAIN io_log : io_log[k].op = "tag" /\ io_log[k].res = "tagged"
    /\ successful = 2
    /\ failed = 0

\* C5: add_date_to_exif is invoked exactly once for each URL whose download
\* succeeded, directly after its file was written and before the next URL is
\* fetched, and never for a URL whose download failed.
C5_TagOncePerSuccess ==
    /\ \A k \in DOMAIN io_log :
          /\ io_log[k].op = "tag" => k > 1 /\ io_log[k - 1] = LogWrite(io_log[k].i)
          /\ io_log[k].op = "write" =>
                IF k < Len(io_log)
                THEN io_log[k + 1].op = "tag" /\ io_log[k + 1].i = io_log[k].i
                ELSE dm_pc = "tag"
          /\ io_log[k].op = "write" => k > 1 /\ io_log[k - 1] = LogFetch(io_log[k].i, "ok")
    /\ \A i \in 1..Len(dm_args.urls) :
          /\ Cardinality(LogIndexes("tag", i)) <= Cardinality(LogIndexes("write", i))
          /\ Cardinality(LogIndexes("write", i)) <= 1
          /\ dm_pc \in {"loop", "done", "raised"} =>
                Cardinality(LogIndexes("tag", i)) = Cardinality(LogIndexes("write", i))

C5_Witness ==
    /\ dm_pc = "done"
    /\ Len(dm_args.urls) = 2
    /\ Cardinality(LogIndexes("tag", 1)) = 1
    /\ Cardinality(LogIndexes("tag", 2)) = 0
    /\ failed = 1

\* C6: a call with an empty URL list returns (0, 0) and performs no fetch, no
\* file write and no tagging attempt.
C6_EmptyListNoIO ==
    dm_args.urls = <<>> /\ dm_pc # "call" =>
        /\ dm_pc \in {"loop", "done"}
        /\ io_log = <<>>
        /\ files = <<>>
        /\ successful = 0
        /\ failed = 0

C6_Witness == dm_args.urls = <<>> /\ dm_pc = "done"

----------------------------------------------------------------------------
(* Properties of the files of a run *)

\* C7: the derived filenames of all download tasks of one journal entry (its
\* gallery images and its attachments) are pairwise distinct.
C7_EntryNamesDistinct ==
    \A a, b \in DOMAIN entry_names : a # b => entry_names[a] # entry_names[b]

\* C8: within one run no successful download overwrites the file of an
\* earlier successful download: as long as no exception has escaped a batch,
\* the number of distinct files in the output directory equals the number of
\* successful downloads (download_success plus the tally of the running batch).
C8_OneFilePerDownload ==
    (run_pc \notin {"idle", "finally", "done", "raised"} /\ dm_pc # "raised")
        => Cardinality(DOMAIN files) = stats.download_success + successful

----------------------------------------------------------------------------
(* Properties of create_filename *)

\* C9: create_filename is injective over the ordinal: for a fixed day, title
\* and URL two calls with distinct counters never return the same string.
C9_InjectiveOverOrdinal ==
    \A c1, c2 \in DOMAIN cf_results :
        c1 # c2 => cf_results[c1].result # cf_results[c2].result

\* the text after the last c of s (all of s when c does not occur in s)
AfterLast(s, c) ==
    CHOOSE t \in {SubSeq(s, k + 1, Len(s)) : k \in 0..Len(s)} :
        /\ ~Contains(t, c)
        /\ Len(t) = Len(s) \/ s[Len(s) - Len(t)] = c

\* C10: with originalName the text after the last "/" of the URL and the
\* extension the text after the last "." of originalName, create_filename
\* returns sanitizedBase + "." + extension when originalName contains a "."
\* and that extension is non-empty, and exactly sanitizedBase (no dot, no
\* extension) when originalName contains no "." or ends with ".".
C10_ExtensionRule ==
    \A c \in DOMAIN cf_results :
        LET name == AfterLast(cf_args.url, "/")
            ext  == AfterLast(name, ".")
            r    == cf_results[c]
        IN  IF Contains(name, ".") /\ ext # <<>>
            THEN r.result = r.sanitized_base \o <<".">> \o ext
            ELSE r.result = r.sanitized_base

C10_Witness ==
    /\ cf_args.url = U_dotend
    /\ cf_args.title = T_special
    /\ 10 \in DOMAIN cf_results

\* C11: for every title containing one of the characters ":", "/", "*", "&",
\* every ordinal and every source URL, the string returned by create_filename
\* contains none of those four characters and ends with "." followed by the
\* extension of the URL (the text after the last "." of its last path segment).
C11_NoSpecialCharsKeepsExtension ==
    \A c \in DOMAIN cf_results :
        (\E ch \in {":", "/", "*", "&"} : Contains(cf_args.title, ch)) =>
            LET ext == AfterLast(AfterLast(cf_args.url, "/"), ".")
                r   == cf_results[c].result
            IN  /\ \A ch \in {":", "/", "*", "&"} : ~Contains(r, ch)
                /\ (Contains(AfterLast(cf_args.url, "/"), ".") /\ ext # <<>>)
                       => EndsWith(r, <<".">> \o ext)

----------------------------------------------------------------------------
(* Properties of ScraperConfig.from_env *)

\* sub occurs in s
IsSubstring(sub, s) ==
    \E k \in 0..(Len(s) - Len(sub)) : SubSeq(s, k + 1, k + Len(sub)) = sub

FromEnvReturned == config # NoConfig
FromEnvRaised == config_error # <<>>

\* the required keys that are absent from env or set to the empty string
MissingKeys == {k \in DOMAIN env : env[k] = None \/ Len(env[k]) = 0}

\* C12: from_env raises one ValueError exactly when at least one of EMAIL,
\* PASSWORD, BASE_URL, GROUP_ID is absent or empty in the environment; the
\* message names every missing key and no key that is present; when none is
\* missing it returns a config and raises nothing.
C12_FromEnvNamesMissingKeys ==
    (FromEnvReturned \/ FromEnvRaised) =>
        /\ FromEnvRaised <=> MissingKeys # {}
        /\ FromEnvRaised <=> ~FromEnvReturned
        /\ FromEnvRaised =>
               \A k \in DOMAIN env : IsSubstring(KeyText(k), config_error) <=> k \in MissingKeys
        /\ FromEnvReturned =>
               /\ config.email = env["EMAIL"]
               /\ config.password = env["PASSWORD"]
               /\ config.base_url = env["BASE_URL"]
               /\ config.group_id = env["GROUP_ID"]

\* from_env raised for an empty EMAIL and an absent PASSWORD, the other two set
C12_Witness ==
    /\ main_pc = "idle"
    /\ FromEnvRaised
    /\ env["EMAIL"] = <<>>
    /\ env["PASSWORD"] = None
    /\ env["BASE_URL"] = <<"v">>
    /\ env["GROUP_ID"] = <<"v">>

----------------------------------------------------------------------------
(* Properties of cli.main and KitaScraper.run *)

RunEnded == run_pc \in {"done", "raised"}

\* C13: main returns 1 if and only if from_env raised, or an exception left
\* run, or the stats returned by run have download_failed > 0, and returns 0
\* in every other case; a failed login or a failed navigation, handled inside
\* run, does not change the exit code.
C13_ExitCode ==
    main_pc = "done" =>
        /\ exit_code \in {0, 1}
        /\ exit_code = 1 <=> \/ MissingKeys # {}
                             \/ run_pc = "raised"
                             \/ stats.download_failed > 0

\* main returned 0 after a run in which a navigation failed and a file was
\* downloaded
C13_Witness ==
    /\ main_pc = "done"
    /\ exit_code = 0
    /\ \E k \in DOMAIN nav_log : ~nav_log[k].ok
    /\ stats.download_success > 0

\* C14: when a required key is missing, from_env raises and main returns 1
\* with no scraper run: no driver is set up, no login, navigation or download
\* is attempted, nothing is written.
C14_ConfigErrorBeforeNetwork ==
    (MissingKeys # {} /\ main_pc # "start") =>
        /\ FromEnvRaised
        /\ ~FromEnvReturned
        /\ main_pc = "done"
        /\ exit_code = 1
        /\ run_pc = "idle"
        /\ driver = "none"
        /\ login_result = "none"
        /\ nav_log = <<>>
        /\ dm_pc = "idle"
        /\ io_log = <<>>
        /\ files = <<>>
        /\ stats = StatsInit

C14_Witness ==
    /\ main_pc = "done"
    /\ exit_code = 1
    /\ env["EMAIL"] = <<"v">>
    /\ env["GROUP_ID"] = None
    /\ FromEnvRaised

\* C15: if login returns False, run ends gracefully: no day is navigated to,
\* every tally stays 0, the driver is quit once, the summary is emitted once
\* and run returns the stats without raising.
C15_LoginFailureGraceful ==
    (login_result = "failed" /\ RunEnded) =>
        /\ nav_log = <<>>
        /\ stats = StatsInit
        /\ quits = 1
        /\ summaries = 1
        /\ run_pc = "done"

NavigatedOk == {k \in DOMAIN nav_log : nav_log[k].ok}

C17_SummaryAlwaysEmitted == RunEnded => summaries = 1

\* C18: when run ends with a driver present, driver.quit() has been called
\* exactly once; when driver setup failed and there is no driver, quit is not
\* called and run returns the stats with days_checked = 0.
C18_QuitOnce ==
    /\ quits <= 1
    /\ (run_pc \in {"finally"} /\ driver = "none") => quits = 0
    /\ RunEnded =>
        /\ driver # "none" => quits = 1
        /\ driver = "none" => quits = 0
        /\ (driver = "none" /\ caught) => /\ run_pc = "done"
                                          /\ stats.days_checked = 0
                                          /\ stats = StatsInit

\* run returned after driver setup failed
C18_Witness ==
    /\ run_pc = "done"
    /\ driver = "none"
    /\ caught
    /\ quits = 0

----------------------------------------------------------------------------
(* Properties of get_work_week_days *)

\* the positions k of the window with day_from <= WindowDay(k) <= day_to that
\* are no Saturday or Sunday: 2023-01-28 (k = 3) is a Saturday
ExpectedWorkDays ==
    {k \in 1..WindowLen :
        /\ \E i \in 1..k : ww_cfg.day_from = strftime(WindowDay(i))
        /\ \E j \in k..WindowLen : ww_cfg.day_to = strftime(WindowDay(j))
        /\ k % 7 \notin {3, 4}}

\* C19: get_work_week_days returns exactly the days d with
\* day_from <= d <= day_to, both ends included, that fall on Monday to Friday,
\* each once and in ascending order; it has no Saturday or Sunday and is
\* empty when day_from is later than day_to.
C19_WorkWeekDays ==
    ww_pc = "returned" =>
        /\ Len(ww_result) = Cardinality(ExpectedWorkDays)
        /\ \A n \in DOMAIN ww_result :
               \E k \in ExpectedWorkDays :
                   /\ ww_result[n] = WindowDay(k)
                   /\ Cardinality({k2 \in ExpectedWorkDays : k2 < k}) = n - 1

\* the call for Friday 2023-01-27 .. Monday 2023-02-06 returned seven days,
\* the first and the last of them the ends of the range
C19_Witness ==
    /\ ww_pc = "returned"
    /\ ww_cfg.day_from = strftime(WindowDay(2))
    /\ ww_cfg.day_to = strftime(WindowDay(12))
    /\ Len(ww_result) = 7
    /\ ww_result[1] = WindowDay(2)
    /\ ww_result[7] = WindowDay(12)

----------------------------------------------------------------------------
(* Properties of add_date_to_exif *)

AllowedExtensions == {<<"j", "p", "g">>, <<"j", "p", "e", "g">>, <<"p", "n", "g">>,
                      <<"t", "i", "f", "f">>, <<"t", "i", "f">>}

\* the extension of ex_path, compared without case, is in the allow-list
HasAllowedExtension ==
    /\ Contains(ex_path, ".")
    /\ \E e \in AllowedExtensions :
          /\ Len(e) = Len(AfterLast(ex_path, "."))
          /\ \A k \in DOMAIN e :
                \/ AfterLast(ex_path, ".")[k] = e[k]
                \/ \E u \in 1..26 : /\ AfterLast(ex_path, ".")[k] = UpperCase[u]
                                    /\ e[k] = LowerCase[u]

\* the image at ex_path opens and carries an EXIF container
CarriesExif == ex_img.opens /\ ex_img.has_exif

\* C20: add_date_to_exif modifies the file only when the extension of the
\* path, compared case-insensitively, is one of jpg, jpeg, png, tiff, tif and
\* the opened image carries an EXIF container; when the extension is not in
\* the list or the image has no EXIF container it returns False and the file
\* is left unchanged.
C20_ExifOnlyForImagesWithExif ==
    ex_pc = "returned" =>
        /\ files[ex_path].content # "downloaded" => (HasAllowedExtension /\ CarriesExif)
        /\ (~HasAllowedExtension \/ ~CarriesExif) =>
               /\ ex_result = FALSE
               /\ files[ex_path].content = "downloaded"
        /\ ex_result = TRUE => files[ex_path].content = "tagged"

\* the call on a.JPG, which carries an EXIF container, returned True and
\* rewrote the file
C20_Witness ==
    /\ ex_pc = "returned"
    /\ ex_path = P_JPG
    /\ ex_img.has_exif
    /\ ex_result = TRUE
    /\ files[ex_path].content = "tagged"

\* C21: add_date_to_exif never propagates an exception: a failure at any
\* step (opening the image, decoding the metadata, re-encoding, rewriting the
\* file) makes it return False, and it returns True only when the file was
\* rewritten with the new date field.
C21_ExifNeverRaises ==
    ex_pc # "call" =>
        /\ ex_pc = "returned"
        /\ (~ex_img.opens \/ ~ex_img.exif_loads \/ ~ex_img.save_ok) => ex_result = FALSE
        /\ ex_result = TRUE => /\ files[ex_path].content = "tagged"
                               /\ ex_img.opens /\ ex_img.has_exif
                               /\ ex_img.exif_loads /\ ex_img.save_ok
        /\ files[ex_path].content = "tagged" => ex_result = TRUE

\* the call on a.jpg returned False after save raised, the file partly written
C21_Witness ==
    /\ ex_pc = "returned"
    /\ ex_path = P_jpg
    /\ ex_img.opens /\ ex_img.has_exif /\ ex_img.exif_loads
    /\ ~ex_img.save_ok
    /\ ex_result = FALSE
    /\ files[ex_path].content = "partial"

----------------------------------------------------------------------------
(* Order of download_media_files *)

\* positions of io_log at which a URL was fetched
Fetches == {k \in DOMAIN io_log : io_log[k].op = "fetch"}

\* C22: download_media_files processes the URLs one after the other in input
\* order, without reordering or skipping: the n-th fetch is the fetch of the
\* URL at position n, the filename of the URL at position i is derived with
\* ordinal i (also after failed downloads), and a call that returns has
\* fetched every URL.
C22_SequentialInOrder ==
    /\ \A k \in Fetches : io_log[k].i = Cardinality({j \in Fetches : j <= k})
    /\ Len(entry_names) = dm_i
    /\ \A i \in DOMAIN entry_names :
          entry_names[i] = create_filename(dm_args.d, dm_args.title, i, dm_args.urls[i])
    /\ dm_pc \in {"download", "tag"} => dm_name = entry_names[dm_i]
    /\ dm_pc = "download" => Cardinality(Fetches) = dm_i - 1
    /\ dm_pc \in {"tag", "loop"} => Cardinality(Fetches) = dm_i
    /\ dm_pc = "done" => Cardinality(Fetches) = Len(dm_args.urls)

\* a call with two URLs returned after the first download failed; the second
\* file has ordinal 2
C22_Witness ==
    /\ dm_pc = "done"
    /\ dm_args.urls = <<U_noext, U_a_jpg>>
    /\ io_log[1] = LogFetch(1, "raised")
    /\ \E k \in DOMAIN io_log : io_log[k] = LogWrite(2)
    /\ entry_names[2] = create_filename(Day1, T_special, 2, U_a_jpg)
    /\ entry_names[2] \in DOMAIN files

----------------------------------------------------------------------------
(* Titles in filenames *)

\* download_media_files, called by _process_journal_entry, has derived the
\* filename dm_name of the URL at position dm_i
NameDerivedInRun ==
    /\ run_pc \in {"pje_images_wait", "pje_attach_wait"}
    /\ dm_pc \in {"download", "tag"}

\* title texts of a page that agree with the title of the entry on their first
\* 25 characters
TitlesAgreeing == {t \in {T_plain, T_27, T_27b} :
                      entry.title # None /\ Take(t, 25) = Take(entry.title, 25)}

\* C23 as stated: the filename returned by create_filename depends on at most
\* the first 25 characters of the title, so that create_filename gives, for
\* every title that agrees with the entry's on the first 25 characters, the
\* filename derived in the run.
C23_CreateFilenameTruncates ==
    NameDerivedInRun =>
        \A t \in TitlesAgreeing :
            create_filename(dm_args.d, t, dm_i, dm_args.urls[dm_i]) = dm_name

\* C23 (amended): _process_journal_entry cuts the title of the entry to 25
\* characters before it calls download_media_files, so that every filename
\* derived in a run is the one create_filename gives for the first 25
\* characters of the title: two entry titles that agree on their first 25
\* characters give the same filename for the same day, ordinal and URL.
\* create_filename itself uses the whole title it is given.
C23_EntryTitleTruncated ==
    NameDerivedInRun =>
        /\ Len(dm_args.title) <= 25
        /\ dm_args.d = day
        /\ \A t \in TitlesAgreeing :
              create_filename(day, Take(t, 25), dm_i, dm_args.urls[dm_i]) = dm_name

\* the attachment of an entry with a title of 27 characters was written under
\* the name of the title's first 25 characters
C23_Witness ==
    /\ NameDerivedInRun
    /\ dm_pc = "tag"
    /\ entry.title = T_27
    /\ T_27b \in TitlesAgreeing
    /\ dm_name = create_filename(day, Take(T_27b, 25), 1, U_twodots)
    /\ dm_name # create_filename(day, T_27, 1, U_twodots)

\* C24: create_filename never produces an empty string: for every title (the
\* empty title and titles of which sanitizing leaves nothing included), every
\* ordinal >= 1 and every URL, the returned filename and its sanitized base
\* are non-empty.
C24_FilenameNonEmpty ==
    \A c \in DOMAIN cf_results :
        /\ Len(cf_results[c].sanitized_base) > 0
        /\ Len(cf_results[c].result) > 0

\* a call with a title of which sanitizing leaves nothing and a URL without
\* extension returned
C24_Witness ==
    /\ cf_args.title = T_removed
    /\ cf_args.url = U_noext
    /\ 1 \in DOMAIN cf_results
    /\ cf_results[1].result = strftime(cf_args.d) \o <<"_", "-", "1">>

----------------------------------------------------------------------------
(* Tallies of a run *)

\* the days the loop of run has taken from the list, in order
DaysTaken == [k \in 1..Len(nav_log) |-> nav_log[k].day]
             \o (IF run_pc = "navigate" THEN <<day>> ELSE <<>>)

\* C25: when login succeeds and no exception escapes the day loop, the
\* days_checked returned by run is the number of days get_work_week_days
\* returned; each day is counted exactly once, before the navigation to it is
\* attempted, whether or not the navigation succeeds.
C25_DaysCheckedCountsDays ==
    login_result = "ok" =>
        /\ \E n \in 0..MaxDays : DayList(n) = DaysTaken \o days
        /\ stats.days_checked = Len(DaysTaken)
        /\ run_pc = "navigate" => stats.days_checked = Len(nav_log) + 1
        /\ (run_pc \in {"finally", "done", "raised"} /\ ~caught) => days = <<>>

\* run returned 2 days checked after the navigation to one of two days failed
C25_Witness ==
    /\ run_pc = "done"
    /\ login_result = "ok"
    /\ ~caught
    /\ stats.days_checked = 2
    /\ Len(nav_log) = 2
    /\ nav_log[1].ok
    /\ ~nav_log[2].ok

\* the processing of the current entry is over, and no WebDriver error was
\* raised in it: it reached the closing of the modal, or it was ended by an
\* exception that is no WebDriver error and that run caught
EntryOverWithoutDriverError ==
    \/ run_pc = "pje_close"
    \/ run_pc = "entry_loop" /\ ~entry_error /\ close_attempts = 1
    \/ /\ run_pc \in {"finally", "done", "raised"}
       /\ caught
       /\ driver # "none"

\* C26: for each journal entry processed without a driver error the tally
\* grows by exactly the entry's contribution: gallery_images by the number of
\* image URLs, attachments by the number of attachment URLs, download_success
\* plus download_failed by the number of both; journal_entries grows by the
\* number of entries found for the day.
C26_EntryContribution ==
    /\ EntryOverWithoutDriverError =>
          /\ stats.gallery_images = stats_mark.gallery_images + Len(entry.images)
          /\ stats.attachments = stats_mark.attachments + Len(entry.attachments)
          /\ stats.download_success + stats.download_failed
                = stats_mark.download_success + stats_mark.download_failed
                  + Len(entry.images) + Len(entry.attachments)
          /\ stats.journal_entries = stats_mark.journal_entries
    /\ (run_pc = "entry_loop" /\ scrape_result = "found" /\ ~entry_error /\ close_attempts = 0)
          => stats.journal_entries = stats_mark.journal_entries + Len(entries)

StatKeys == {"days_checked", "journal_entries", "gallery_images", "attachments",
             "download_success", "download_failed"}

\* C27: in every state of a run outside the update of the tally after a batch,
\* and in the stats run returns, download_success + download_failed =
\* gallery_images + attachments; every tally is non-negative and no step of
\* the run decreases a tally.
C27_TalliesBalanced ==
    [][/\ stats'.download_success + stats'.download_failed
            = stats'.gallery_images + stats'.attachments
       /\ \A k \in StatKeys : stats'[k] >= stats[k] /\ stats[k] >= 0]_vars

\* run returned with failed and successful downloads of images and attachments
C27_Witness ==
    /\ run_pc = "done"
    /\ stats.download_failed > 0
    /\ stats.download_success > 0
    /\ stats.gallery_images > 0
    /\ stats.attachments > 0

\* C28: if locating the journal entries of a day raises a WebDriver error,
\* scrape_journal_entries returns without raising, leaves every tally
\* unchanged and download_media_files is not called for that day.
C28_FindErrorLeavesTallies ==
    scrape_result = "error" =>
        /\ run_pc \in {"day_loop", "finally", "done", "raised"}
        /\ ~caught
        /\ stats = stats_mark
        /\ dm_pc = "idle"
        /\ io_log = <<>>

\* run returned after the scrape of the second day failed, the files of the
\* first day counted
C28_Witness ==
    /\ scrape_result = "error"
    /\ run_pc = "done"
    /\ stats.days_checked = 2
    /\ stats.journal_entries > 0
    /\ stats.download_success > 0

\* C29: a WebDriver error raised while one journal entry is processed is
\* contained to that entry: the tallies accumulated before the error are
\* kept, an attempt is made to close the modal, and the later entries of the
\* day and the later days are still processed.
C29_EntryErrorContained ==
    /\ entry_error =>
          /\ close_attempts >= 1
          /\ \A k \in StatKeys : stats[k] >= stats_mark[k]
          /\ stats.gallery_images \in {stats_mark.gallery_images,
                                       stats_mark.gallery_images + Len(entry.images)}
          /\ ~caught => run_pc \in {"entry_loop", "day_loop", "navigate", "finally", "done", "raised"}
    /\ run_pc \in {"day_loop", "navigate", "scrape"} => entries = <<>>
    /\ (run_pc \in {"finally", "done", "raised"} /\ login_result = "ok" /\ ~caught)
          => entries = <<>> /\ days = <<>>

\* after a WebDriver error in the first entry of a day, whose images had been
\* counted, the second entry of the day is being processed
C29_Witness ==
    /\ run_pc = "pje_attach"
    /\ stats.journal_entries = 2
    /\ stats_mark.gallery_images = 1
    /\ stats_mark.attachments = 0
    /\ stats_mark.download_success + stats_mark.download_failed = 1
    /\ entries = <<>>

\* C30: download_file returns True only after the fetched bytes have been
\* written to output_path, replacing whatever was there; when the fetch raises
\* it returns False (the caller counts a failure, no exception reaches it) and
\* the files are as before the call: output_path is neither created nor
\* modified.
C30_DownloadFileEffect ==
    [][dm_pc = "download" =>
         LET url == dm_args.urls[dm_i]
         IN  /\ successful' = successful + 1 =>
                   /\ io_log' = io_log \o <<LogFetch(dm_i, "ok"), LogWrite(dm_i)>>
                   /\ dm_name \in DOMAIN files'
                   /\ files'[dm_name] = [src |-> url, content |-> "downloaded"]
             /\ io_log' = Append(io_log, LogFetch(dm_i, "raised")) =>
                   /\ files' = files
                   /\ successful' = successful
                   /\ failed' = failed + 1
                   /\ dm_pc' = pc_after_failure]_vars

\* a first call wrote its bytes over an earlier file and returned True, the
\* fetch of a second call on the same path raised and the file is still the
\* one the first call wrote
C30_Witness ==
    /\ Len(dm_args.urls) = 2
    /\ dm_args.urls[1] # dm_args.urls[2]
    /\ dm_args.urls[1] # U_a_jpg
    /\ io_log = <<LogFetch(1, "ok"), LogWrite(1), LogFetch(2, "raised")>>
    /\ successful = 1
    /\ failed = 1
    /\ dm_name \in DOMAIN files
    /\ files[dm_name] = [src |-> dm_args.urls[1], content |-> "downloaded"]

====
